---- MODULE Spec2Model ----
(***************************************************************************)
(* Model of mollab's particle entity (mollab/core/atom.py, class Atom) and *)
(* of the grouping utility (mollab/plugins/input/input_base.py).           *)
(*                                                                         *)
(* Atoms are numbered 1..NumAtoms at construction; replicas produced by    *)
(* duplicate() get the next free numbers.  Coordinates are integers; a     *)
(* call is only modelled for inputs on which numpy's floating-point        *)
(* arithmetic is exact (norms are integers, quotients divide evenly).      *)
(* The all-NaN vector numpy produces for 0/0 is the value NaNVec.          *)
(***************************************************************************)
EXTENDS Integers, Sequences, FiniteSets, TLC

\* ------------------------------------------------------------------ bounds
NumAtoms == 3        \* atoms built by Atom.__init__
MaxArgs == 2         \* longest *atoms argument list of add_neighbors
MaxCoord == 16       \* coordinates stay within -MaxCoord..MaxCoord
MaxLen == 3          \* longest list of atoms handed to group_by
MaxReplicas == 9     \* longest replica list
MaxCalls == 2        \* method calls made in one behaviour

Atoms == 1..NumAtoms

\* a value that is not an instance of Atom
NotAnAtom == 0

VARIABLES
    position,     \* position[a]: Item.position of atom a, a 3-vector or NaNVec
    neighbors,    \* neighbors[a]: the list Atom._neighbors of atom a
    _duplicate,   \* _duplicate[a]: the replica list Atom._duplicate of atom a
    attrs,        \* attrs[a]: the attributes of atom a that group_by reads
    molecules,    \* the list most recently returned by group_by
    input,        \* the arguments group_by is called with
    call,         \* name of the most recent method call
    err,          \* how that call ended: "ok" or the exception it raised
    ncalls        \* number of method calls made so far

vars == <<position, neighbors, _duplicate, attrs, molecules, input, call, err,
          ncalls>>

\* bookkeeping shared by every method call
Called(op) == ncalls < MaxCalls /\ ncalls' = ncalls + 1 /\ call' = op

\* ------------------------------------------------------------ vector algebra
NaNVec == <<>>

Zero3 == <<0, 0, 0>>

IsNaN(v) == v = NaNVec

VecAdd(u, v) ==
    IF IsNaN(u) \/ IsNaN(v) THEN NaNVec
    ELSE <<u[1] + v[1], u[2] + v[2], u[3] + v[3]>>

VecNeg(v) == IF IsNaN(v) THEN NaNVec ELSE <<-v[1], -v[2], -v[3]>>

VecSub(u, v) == VecAdd(u, VecNeg(v))

VecScale(k, v) == IF IsNaN(v) THEN NaNVec ELSE <<k * v[1], k * v[2], k * v[3]>>

NormSq(v) == v[1] * v[1] + v[2] * v[2] + v[3] * v[3]

InBox(v) == IF IsNaN(v) THEN TRUE
            ELSE \A i \in 1..3 : v[i] \in -MaxCoord..MaxCoord

\* ------------------------------------------------------------------ bonding
\* Item.__contains__ as used by "atom not in self": membership of atom in
\* the bonding list of self.
Contains(nb, self, atom) == \E i \in 1..Len(nb[self]) : nb[self][i] = atom

\* BondOne recording the bond on the side of self only
BondOne_oneSided(nb, self, atom) ==
    IF ~Contains(nb, self, atom)
    THEN [nb EXCEPT ![self] = Append(@, atom)]
    ELSE nb

\* BondOne without the two membership tests
BondOne_noCheck(nb, self, atom) ==
    [[nb EXCEPT ![self] = Append(@, atom)] EXCEPT ![atom] = Append(@, self)]

\* one pass of the loop body of add_neighbors for an Atom argument
BondOne(nb, self, atom) ==
    LET n1 == IF ~Contains(nb, self, atom)
              THEN [nb EXCEPT ![self] = Append(@, atom)]
              ELSE nb
    IN  IF ~Contains(n1, atom, self)
        THEN [n1 EXCEPT ![atom] = Append(@, self)]
        ELSE n1

\* the for loop of add_neighbors over atoms[i..]; stops at the first
\* argument that is not an Atom, keeping what earlier passes appended
RECURSIVE BondLoop(_, _, _, _)
BondLoop(nb, self, atoms, i) ==
    IF i > Len(atoms) THEN [nb |-> nb, err |-> "ok"]
    ELSE IF atoms[i] \in Atoms
         THEN BondLoop(BondOne(nb, self, atoms[i]), self, atoms, i + 1)
         ELSE [nb |-> nb, err |-> "TypeError"]

ArgLists == UNION {[1..n -> Atoms \cup {NotAnAtom}] : n \in 0..MaxArgs}

add_neighbors(self, atoms) ==
    /\ Called("add_neighbors")
    /\ \E r \in {BondLoop(neighbors, self, atoms, 1)} :
        /\ neighbors' = r.nb
        /\ err' = r.err
    /\ UNCHANGED <<position, _duplicate, attrs, molecules, input>>

\* ------------------------------------------------------------- translation
\* Item._move(position, x, y, z): vector addition
_move(pos, d) == VecAdd(pos, d)

\* the positions after atom self has run move(*d)
Move(pos, self, d) == [pos EXCEPT ![self] = _move(pos[self], d)]

\* ---------------------------------------------------------- exact quotients
\* np.linalg.norm(v) where it is an integer
NormBound == 4 * MaxCoord

HasNorm(v) == \E n \in 0..NormBound : n * n = NormSq(v)

Norm(v) == CHOOSE n \in 0..NormBound : n * n = NormSq(v)

\* the array num/den; numpy gives nan for 0/0
Quot(num, den) == [num |-> num, den |-> den]

IsExact(q) ==
    IF IsNaN(q.num) THEN TRUE
    ELSE IF q.den = 0 THEN q.num = Zero3
    ELSE \A i \in 1..3 : q.num[i] % q.den = 0

Div(n, d) == IF d > 0 THEN n \div d ELSE (-n) \div (-d)

ToVec(q) ==
    IF IsNaN(q.num) \/ q.den = 0 THEN NaNVec
    ELSE <<Div(q.num[1], q.den), Div(q.num[2], q.den), Div(q.num[3], q.den)>>

\* ------------------------------------------------------------- separation
\* Coincide comparing the identity of the two arrays instead of their
\* elements: never true
Coincide_identity(p, q) == FALSE

\* all(self.position == targetItem.position): elementwise, false on nan
Coincide(p, q) == ~IsNaN(p) /\ ~IsNaN(q) /\ p = q

Modes == {"relative", "rel", "abusolute", "abs", "absolute", "other"}

Values == {-1, 0, 2, 5}

\* uniVec * (num/den) for uniVec = oriVec / distance
AlongUni(oriVec, distance, num, den) ==
    Quot(VecScale(num, oriVec), distance * den)

\* RelShift with the halving left out: distance * (value - 1)
RelShift_noHalf(oriVec, distance, value) ==
    AlongUni(oriVec, distance, distance * (value - 1), 1)

\* uniVec * distance after distance = distance * (value - 1) / 2
RelShift(oriVec, distance, value) ==
    AlongUni(oriVec, distance, distance * (value - 1), 2)

\* the state of seperate_with at its return or raise; exact tells whether
\* the arithmetic of the call is exact on these inputs
SeperateResult(pos, self, targetItem, type, value) ==
    IF Coincide(pos[self], pos[targetItem])
    THEN [pos |-> pos, err |-> "ValueError", exact |-> TRUE]
    ELSE LET oriVec == VecSub(pos[targetItem], pos[self])
         IN  IF IsNaN(oriVec)
             THEN [pos |-> IF type \in {"relative", "rel", "abusolute", "abs"}
                           THEN [pos EXCEPT ![self] = NaNVec,
                                            ![targetItem] = NaNVec]
                           ELSE pos,
                   err |-> "ok", exact |-> TRUE]
             ELSE IF ~HasNorm(oriVec)
             THEN [pos |-> pos, err |-> "ok", exact |-> FALSE]
             ELSE
             LET distance == Norm(oriVec)
                 rel == RelShift(oriVec, distance, value)
                 pos1 == IF type = "relative" \/ type = "rel"
                         THEN Move(Move(pos, self, VecNeg(ToVec(rel))),
                                   targetItem, ToVec(rel))
                         ELSE pos
                 \* uniVec * value
                 abs == AlongUni(oriVec, distance, value, 1)
                 pos2 == IF type = "abusolute" \/ type = "abs"
                         THEN Move(Move(pos1, self, VecNeg(ToVec(abs))),
                                   targetItem, ToVec(abs))
                         ELSE pos1
             IN  [pos |-> pos2, err |-> "ok",
                  exact |-> /\ type \in {"relative", "rel"} => IsExact(rel)
                            /\ type \in {"abusolute", "abs"} => IsExact(abs)]

seperate_with(self, targetItem, type, value) ==
    /\ Called("seperate_with")
    /\ \E r \in {SeperateResult(position, self, targetItem, type, value)} :
        /\ r.exact
        /\ \A a \in DOMAIN r.pos : InBox(r.pos[a])
        /\ position' = r.pos
        /\ err' = r.err
    /\ UNCHANGED <<neighbors, _duplicate, attrs, molecules, input>>

\* ---------------------------------------------------------------- rotation
\* theta counts quarter turns, so that cos and sin are exact
Thetas == 0..3

CosQ(theta) == CASE theta % 4 = 0 -> 1 [] theta % 4 = 1 -> 0
                 [] theta % 4 = 2 -> -1 [] OTHER -> 0

SinQ(theta) == CASE theta % 4 = 0 -> 0 [] theta % 4 = 1 -> 1
                 [] theta % 4 = 2 -> 0 [] OTHER -> -1

Dot(u, v) == u[1] * v[1] + u[2] * v[2] + u[3] * v[3]

Cross(u, v) == <<u[2] * v[3] - u[3] * v[2],
                 u[3] * v[1] - u[1] * v[3],
                 u[1] * v[2] - u[2] * v[1]>>

\* Item._rotate(position, theta, x, y, z): rotation of position by theta
\* about the normalised axis (x, y, z) through the origin, by Rodrigues'
\* formula; an axis of zero length cannot be normalised and raises
\* InvalidAxis
_rotate(pos, theta, axis) ==
    IF NormSq(axis) = 0
    THEN [err |-> "InvalidAxis", pos |-> pos, exact |-> TRUE]
    ELSE IF ~HasNorm(axis)
    THEN [err |-> "ok", pos |-> pos, exact |-> FALSE]
    ELSE LET n == Norm(axis)
             c == CosQ(theta)
             s == SinQ(theta)
             q == Quot(VecAdd(VecAdd(VecScale(c * n * n, pos),
                                     VecScale(s * n, Cross(axis, pos))),
                              VecScale((1 - c) * Dot(axis, pos), axis)),
                       n * n)
         IN  [err |-> "ok", pos |-> ToVec(q), exact |-> IsExact(q)]

\* the state of rotate at its return or raise
RotateResult(pos, self, theta, axis, disVec) ==
    LET pos1 == Move(pos, self, VecNeg(disVec))
        r == _rotate(pos1[self], theta, axis)
    IN  IF r.err # "ok"
        THEN [pos |-> pos1, err |-> r.err, exact |-> TRUE]
        ELSE [pos |-> Move([pos1 EXCEPT ![self] = r.pos], self, disVec),
              err |-> "ok", exact |-> r.exact]

Axes == {Zero3, <<1, 0, 0>>, <<0, 0, 2>>, <<0, 3, 4>>}

Pivots == {Zero3, <<1, 1, 0>>}

rotate(self, theta, axis, disVec) ==
    /\ Called("rotate")
    /\ \E r \in {RotateResult(position, self, theta, axis, disVec)} :
        /\ r.exact
        /\ InBox(r.pos[self])
        /\ position' = r.pos
        /\ err' = r.err
    /\ UNCHANGED <<neighbors, _duplicate, attrs, molecules, input>>

\* (xAxis, yAxis, zAxis) is one of (1,0,0), (0,1,0), (0,0,1)
IsSelector(sel) == sel = <<1, 0, 0>> \/ sel = <<0, 1, 0>> \/ sel = <<0, 0, 1>>

Selectors == {<<a, b, c>> : a \in {0, 1}, b \in {0, 1}, c \in {0, 1}}

rotate_orth(self, theta, disVec, sel) ==
    /\ Called("rotate_orth")
    /\ IF IsSelector(sel)
       THEN \E r \in {RotateResult(position, self, theta, sel, disVec)} :
                /\ r.exact
                /\ InBox(r.pos[self])
                /\ position' = r.pos
                /\ err' = r.err
       ELSE /\ err' = "SyntaxError"
            /\ UNCHANGED <<position, _duplicate, attrs, molecules, input>>
    /\ UNCHANGED <<neighbors, _duplicate, attrs, molecules, input>>

\* ----------------------------------------------------------- random move
RandMax == 4

\* what np.random.rand(3) can return, in units of 1/(RandMax + 1): every
\* component lies in [0, 1)
RandDraws == {v \in {<<a, b, c>> : a \in 0..RandMax, b \in 0..RandMax,
                                   c \in 0..RandMax} : HasNorm(v)}

Lengths == {0, 3, 5}

\* vec /= np.linalg.norm(vec); vec *= length
RandVec(vec, length) == Quot(VecScale(length, vec), Norm(vec))

randmove(self, vec, length) ==
    /\ Called("randmove")
    /\ \E q \in {RandVec(vec, length)} :
        /\ IsExact(q)
        /\ InBox(VecAdd(position[self], ToVec(q)))
        /\ position' = Move(position, self, ToVec(q))
    /\ err' = "ok"
    /\ UNCHANGED <<neighbors, _duplicate, attrs, molecules, input>>

\* ------------------------------------------------------------ replication
MaxN == 2            \* largest n handed to duplicate

Steps == {<<1, 0, 0>>, <<0, -1, 2>>}

\* Item.get_replica(label): a structural copy of atom j with a new
\* identity, the next free number, at the position of j
get_replica(pos, j) == Append(pos, pos[j])

\* DupInner looping over range(1, n)
RECURSIVE DupInner_short(_, _, _, _, _)
DupInner_short(st, j, i, n, d) ==
    IF i >= n THEN st
    ELSE LET pos1 == get_replica(st.pos, j)
             atom == Len(pos1)
         IN  DupInner_short([pos |-> Move(pos1, atom, VecScale(i, d)),
                             temp |-> Append(st.temp, atom)],
                            j, i + 1, n, d)

\* DupInner moving every replica by (x, y, z), not by i times it
RECURSIVE DupInner_fixedStep(_, _, _, _, _)
DupInner_fixedStep(st, j, i, n, d) ==
    IF i > n THEN st
    ELSE LET pos1 == get_replica(st.pos, j)
             atom == Len(pos1)
         IN  DupInner_fixedStep([pos |-> Move(pos1, atom, d),
                                 temp |-> Append(st.temp, atom)],
                                j, i + 1, n, d)

\* the inner loop of duplicate, for i in range(1, n + 1), from i on;
\* st.pos are the positions of all atoms, st.temp is the list temp
RECURSIVE DupInner(_, _, _, _, _)
DupInner(st, j, i, n, d) ==
    IF i > n THEN st
    ELSE LET pos1 == get_replica(st.pos, j)
             atom == Len(pos1)
         IN  DupInner([pos |-> Move(pos1, atom, VecScale(i, d)),
                       temp |-> Append(st.temp, atom)],
                      j, i + 1, n, d)

\* the outer loop of duplicate, for j in self._duplicate, from its k-th
\* element on
RECURSIVE DupOuter(_, _, _, _, _)
DupOuter(st, list, k, n, d) ==
    IF k > Len(list) THEN st
    ELSE DupOuter(DupInner(st, list[k], 1, n, d), list, k + 1, n, d)

duplicate(self, n, d) ==
    /\ Called("duplicate")
    /\ Len(_duplicate[self]) * (n + 1) <= MaxReplicas
    /\ \E st \in {DupOuter([pos |-> position, temp |-> <<>>],
                           _duplicate[self], 1, n, d)} :
        /\ \A a \in DOMAIN st.pos : InBox(st.pos[a])
        /\ position' = st.pos
        /\ _duplicate' = [_duplicate EXCEPT ![self] = @ \o st.temp]
    /\ err' = "ok"
    /\ UNCHANGED <<neighbors, attrs, molecules, input>>

\* --------------------------------------------------------------- grouping
\* an attribute the atom does not have
NoAttr == "<no attribute>"

AttrNames == {"ref", "parent"}

\* getattr(atom, reference, 'UNDEFINED')
getattr(at, atom, reference) ==
    IF at[atom][reference] = NoAttr THEN "UNDEFINED" ELSE at[atom][reference]

\* DictAppend putting a new key in front of the older ones
DictAppend_prepend(grouped, ref, atom) ==
    IF \E k \in 1..Len(grouped) : grouped[k].key = ref
    THEN [k \in 1..Len(grouped) |->
             IF grouped[k].key = ref
             THEN [grouped[k] EXCEPT !.items = Append(@, atom)]
             ELSE grouped[k]]
    ELSE <<[key |-> ref, items |-> <<atom>>]>> \o grouped

\* grouped_atoms[ref].append(atom) on a defaultdict(list), kept as the
\* sequence of its (key, list) items in insertion order
DictAppend(grouped, ref, atom) ==
    IF \E k \in 1..Len(grouped) : grouped[k].key = ref
    THEN [k \in 1..Len(grouped) |->
             IF grouped[k].key = ref
             THEN [grouped[k] EXCEPT !.items = Append(@, atom)]
             ELSE grouped[k]]
    ELSE Append(grouped, [key |-> ref, items |-> <<atom>>])

\* the first loop of group_by over atoms[i..]
RECURSIVE GroupLoop(_, _, _, _)
GroupLoop(st, atoms, i, reference) ==
    IF i > Len(atoms) THEN st
    ELSE LET atom == atoms[i]
             ref == getattr(st.attrs, atom, reference)
         IN  GroupLoop([attrs |-> [st.attrs EXCEPT ![atom].parent = ref],
                        grouped |-> DictAppend(st.grouped, ref, atom)],
                       atoms, i + 1, reference)

\* Molecule(ref) with parent set to filename, after add_items(*gatom)
Molecule(ref, filename, gatom) ==
    [name |-> ref, parent |-> filename, items |-> gatom]

group_by(filename, atoms, reference) ==
    /\ Called("group_by")
    /\ \E st \in {GroupLoop([attrs |-> attrs, grouped |-> <<>>],
                            atoms, 1, reference)} :
        /\ attrs' = st.attrs
        /\ molecules' = [k \in 1..Len(st.grouped) |->
                            Molecule(st.grouped[k].key, filename,
                                     st.grouped[k].items)]
    /\ err' = "ok"
    /\ UNCHANGED <<position, neighbors, _duplicate, input>>

\* ------------------------------------------------------------ specifications
NoCall == "none"

NoInput == [filename |-> "", atoms |-> <<>>, reference |-> "parent"]

\* Atom.__init__ for every atom, before any call
Constructed ==
    /\ neighbors = [a \in Atoms |-> <<>>]
    /\ _duplicate = [a \in Atoms |-> <<a>>]
    /\ molecules = <<>>

InitBond ==
    /\ attrs = [a \in Atoms |-> [ref |-> NoAttr, parent |-> NoAttr]]
    /\ input = NoInput
    /\ position = [a \in Atoms |-> Zero3]
    /\ Constructed
    /\ call = NoCall
    /\ err = "ok"
    /\ ncalls = 0

NextBond == \E self \in Atoms, atoms \in ArgLists : add_neighbors(self, atoms)

SpecBond == InitBond /\ [][NextBond]_vars

InitPositions == {Zero3, <<0, 6, 8>>}

InitSep ==
    /\ attrs = [a \in Atoms |-> [ref |-> NoAttr, parent |-> NoAttr]]
    /\ input = NoInput
    /\ position \in [Atoms -> InitPositions]
    /\ Constructed
    /\ call = NoCall
    /\ err = "ok"
    /\ ncalls = 0

NextSep ==
    \E self \in Atoms, targetItem \in Atoms, type \in Modes, value \in Values :
        seperate_with(self, targetItem, type, value)

SpecSep == InitSep /\ [][NextSep]_vars

InitRot ==
    /\ attrs = [a \in Atoms |-> [ref |-> NoAttr, parent |-> NoAttr]]
    /\ input = NoInput
    /\ position \in [Atoms -> InitPositions]
    /\ Constructed
    /\ call = NoCall
    /\ err = "ok"
    /\ ncalls = 0

NextRot ==
    \/ \E self \in Atoms, theta \in Thetas, axis \in Axes, disVec \in Pivots :
          rotate(self, theta, axis, disVec)
    \/ \E self \in Atoms, theta \in Thetas, disVec \in Pivots, sel \in Selectors :
          rotate_orth(self, theta, disVec, sel)

SpecRot == InitRot /\ [][NextRot]_vars

InitRand ==
    /\ attrs = [a \in Atoms |-> [ref |-> NoAttr, parent |-> NoAttr]]
    /\ input = NoInput
    /\ position \in [Atoms -> InitPositions]
    /\ Constructed
    /\ call = NoCall
    /\ err = "ok"
    /\ ncalls = 0

NextRand ==
    \E self \in Atoms, vec \in RandDraws, length \in Lengths :
        randmove(self, vec, length)

SpecRand == InitRand /\ [][NextRand]_vars

InitDup ==
    /\ position = [a \in Atoms |-> <<a, -a, 0>>]
    /\ Constructed
    /\ attrs = [a \in Atoms |-> [ref |-> NoAttr, parent |-> NoAttr]]
    /\ input = NoInput
    /\ call = NoCall
    /\ err = "ok"
    /\ ncalls = 0

NextDup == \E self \in Atoms, n \in 0..MaxN, d \in Steps : duplicate(self, n, d)

SpecDup == InitDup /\ [][NextDup]_vars

RefValues == {"m1", "m2", NoAttr}

AtomLists == UNION {[1..n -> Atoms] : n \in 0..MaxLen}

InitGroup ==
    /\ position = [a \in Atoms |-> Zero3]
    /\ Constructed
    /\ attrs \in [Atoms -> [ref : RefValues, parent : {"m1", NoAttr}]]
    /\ input \in [filename : {"file1"}, atoms : AtomLists, reference : AttrNames]
    /\ call = NoCall
    /\ err = "ok"
    /\ ncalls = 0

NextGroup == group_by(input.filename, input.atoms, input.reference)

SpecGroup == InitGroup /\ [][NextGroup]_vars

\* ================================================================ properties

\* ---- SpecBond
\* C1: in every reachable state, also after a call that stopped with
\* TypeError, B is in the bonding list of A exactly if A is in that of B.
C1_BondingSymmetric ==
    \A a \in Atoms, b \in Atoms :
        Contains(neighbors, a, b) <=> Contains(neighbors, b, a)

\* a call has bonded atoms 1 and 2 and then stopped at a non-Atom argument
C1_Witness ==
    /\ call = "add_neighbors"
    /\ err = "TypeError"
    /\ Contains(neighbors, 1, 2)
    /\ Contains(neighbors, 2, 1)

NoDuplicateNeighbors ==
    \A a \in Atoms : \A i \in 1..Len(neighbors[a]), j \in 1..Len(neighbors[a]) :
        i # j => neighbors[a][i] # neighbors[a][j]

\* what add_neighbors returns when it changes nothing
NoChange == [nb |-> neighbors, err |-> "ok"]

\* C7: add_neighbors is idempotent: in every reachable state where B is in
\* the bonding list of A, the calls A.add_neighbors(B), B.add_neighbors(A)
\* and A.add_neighbors(B, B) would each leave every bonding list unchanged,
\* and no bonding list ever holds the same atom twice.
C7_BondingIdempotent ==
    /\ NoDuplicateNeighbors
    /\ \A a \in Atoms : \A i \in 1..Len(neighbors[a]) :
         LET b == neighbors[a][i]
         IN  /\ BondLoop(neighbors, a, <<b>>, 1) = NoChange
             /\ BondLoop(neighbors, b, <<a>>, 1) = NoChange
             /\ BondLoop(neighbors, a, <<b, b>>, 1) = NoChange

\* two calls have been made and atoms 1 and 2 are bonded exactly once, with
\* nothing else bonded: one of the calls found the bond in place
C7_Witness ==
    /\ call = "add_neighbors"
    /\ err = "ok"
    /\ ncalls = 2
    /\ neighbors[1] = <<2>>
    /\ neighbors[2] = <<1>>
    /\ \A a \in Atoms \ {1, 2} : neighbors[a] = <<>>

\* ---- SpecDup
\* C2: a call duplicate(n, ...) on an atom whose replica list has length L
\* leaves it with length L * (n + 1), and the first element of the replica
\* list of an atom is always the atom itself.
C2_ReplicaLength ==
    /\ [](\A a \in Atoms : Len(_duplicate[a]) >= 1 /\ _duplicate[a][1] = a)
    /\ [][\A self \in Atoms, n \in 0..MaxN, d \in Steps :
            duplicate(self, n, d)
                => Len(_duplicate'[self]) = Len(_duplicate[self]) * (n + 1)]_vars

\* atom 1 has been duplicated twice with n = 2
C2_Witness ==
    /\ call = "duplicate"
    /\ ncalls = 2
    /\ Len(_duplicate[1]) = 9

\* C8: duplicate appends the new atoms behind the old replica list, source
\* by source in list order and for each source i = 1..n in turn; the new
\* atom for source s and index i is a new atom at the old position of s
\* plus i * (x, y, z); all atoms that existed keep their positions.
C8_ReplicaOrder ==
    [][\A self \in Atoms, n \in 0..MaxN, d \in Steps :
        duplicate(self, n, d) =>
            LET L == _duplicate[self]
            IN  /\ SubSeq(_duplicate'[self], 1, Len(L)) = L
                /\ \A a \in DOMAIN position : position'[a] = position[a]
                /\ \A k \in 1..Len(L), i \in 1..n :
                     LET new == _duplicate'[self][Len(L) + (k - 1) * n + i]
                     IN  /\ new \notin DOMAIN position
                         /\ position'[new] =
                                VecAdd(position[L[k]], VecScale(i, d))]_vars

\* the second duplicate of atom 1, with n = 2, has copied a replica as well
C8_Witness ==
    /\ call = "duplicate"
    /\ ncalls = 2
    /\ Len(_duplicate[1]) = 6
    /\ Len(position) = NumAtoms + 5

\* ---- SpecSep
\* d * (q - p) = k * v, for vectors p, q, v
MovedBy(p, q, d, k, v) == VecScale(d, VecSub(q, p)) = VecScale(k, v)

\* the pairs of atoms at distinct positions
Apart == {pair \in Atoms \X Atoms : position[pair[1]] # position[pair[2]]}

\* C3, as claimed: seperate_with(other, "absolute", value) on atoms at
\* distinct positions moves self by value along the unit vector from other
\* to self and other by value along the opposite one.
C3_AbsoluteMoves ==
    [][\A pair \in Apart, value \in Values :
         LET self == pair[1]
             targetItem == pair[2]
             oriVec == VecSub(position[targetItem], position[self])
         IN  seperate_with(self, targetItem, "absolute", value) =>
               /\ err' = "ok"
               /\ MovedBy(position[self], position'[self],
                          Norm(oriVec), -value, oriVec)
               /\ MovedBy(position[targetItem], position'[targetItem],
                          Norm(oriVec), value, oriVec)]_vars

\* what a call in mode "relative" with result r does to the two atoms:
\* each moves (value - 1) / 2 times the vector between them, away from
\* the other, and no other atom moves
RelativeMoves(r, self, targetItem, value) ==
    LET oriVec == VecSub(position[targetItem], position[self])
    IN  /\ r.err = "ok"
        /\ MovedBy(position[self], r.pos[self], 2, -(value - 1), oriVec)
        /\ MovedBy(position[targetItem], r.pos[targetItem],
                   2, value - 1, oriVec)
        /\ \A a \in Atoms \ {self, targetItem} : r.pos[a] = position[a]

C6_CoincidentFails ==
    \A self \in Atoms, targetItem \in Atoms :
        position[self] = position[targetItem] =>
            \A type \in Modes, value \in Values :
                SeperateResult(position, self, targetItem, type, value)
                    = [pos |-> position, err |-> "ValueError", exact |-> TRUE]

\* atoms 1 and 2 were drawn together by relative 0 and the next call failed
C6_Witness ==
    /\ call = "seperate_with"
    /\ err = "ValueError"
    /\ ncalls = 2
    /\ position[1] = <<0, 3, 4>>
    /\ position[2] = <<0, 3, 4>>

\* ---- SpecRot
\* C5, as claimed: a rotate or rotate_orth that raises leaves the position
\* of every atom as it was before the call.
C5_FailedRotationKeepsPosition ==
    [][call' \in {"rotate", "rotate_orth"} /\ err' # "ok"
        => position' = position]_vars

\* ---- SpecRand
\* C10, as claimed: randmove(length) on an atom at a finite position leaves
\* it at a finite position whose distance from the old one is length,
\* whatever vector the random source returned.
C10_RandmoveLength ==
    [][\A self \in Atoms, vec \in RandDraws, length \in Lengths :
        ~IsNaN(position[self]) /\ randmove(self, vec, length)
        => /\ ~IsNaN(position'[self])
           /\ NormSq(VecSub(position'[self], position[self]))
                = length * length]_vars

\* ---- SpecGroup
\* the key group_by files atom a under
KeyOf(a) == IF attrs[a][input.reference] = NoAttr THEN "UNDEFINED"
            ELSE attrs[a][input.reference]

\* the place of the first atom with key x in the input list
FirstAt(x) == CHOOSE i \in 1..Len(input.atoms) :
                 /\ KeyOf(input.atoms[i]) = x
                 /\ \A j \in 1..(i - 1) : KeyOf(input.atoms[j]) # x

\* the atoms of the input list with key x, in input order
KeyedBy(x) == SelectSeq(input.atoms, LAMBDA a : KeyOf(a) = x)

\* C9: group_by returns one aggregate per distinct key of the input atoms
\* (atoms without the attribute have the key "UNDEFINED"), ordered by the
\* first occurrence of the keys; the aggregate of a key holds exactly the
\* input atoms with that key, in input order.
C9_GroupBy ==
    [][group_by(input.filename, input.atoms, input.reference) =>
        LET keys == {KeyOf(input.atoms[i]) : i \in 1..Len(input.atoms)}
            mols == molecules'
        IN  /\ Len(mols) = Cardinality(keys)
            /\ \A k \in 1..Len(mols) :
                 /\ mols[k].name \in keys
                 /\ mols[k].parent = input.filename
                 /\ mols[k].items = KeyedBy(mols[k].name)
            /\ \A k \in 1..Len(mols), l \in 1..Len(mols) :
                 k < l => FirstAt(mols[k].name) < FirstAt(mols[l].name)]_vars

\* atoms 1 and 2 with key "m1" and atom 3 with key "m2", grouped
C9_Witness ==
    /\ call = "group_by"
    /\ input.atoms = <<1, 2, 3>>
    /\ Len(molecules) = 2
    /\ molecules[1] = [name |-> "m1", parent |-> "file1", items |-> <<1, 2>>]
    /\ molecules[2] = [name |-> "m2", parent |-> "file1", items |-> <<3>>]

====
